---- MODULE Spec2Model ----
(***************************************************************************)
(* ssm-cli: selector resolution (ssm.py main, select_instance; ssmc.py     *)
(* multichoice) and the multi-target command dispatch of                   *)
(* EC2Client.send_command (one request, a confirmation, a thread pool of   *)
(* waiters, the printed report).                                           *)
(*                                                                         *)
(* Python strings the code inspects (startswith, lower, in, strip, int)    *)
(* are sequences of one-character strings; dictionaries are records, and a *)
(* key the dictionary lacks is a field the record lacks.                   *)
(***************************************************************************)
EXTENDS Integers, Sequences, FiniteSets, TLC

VARIABLES
    prog,            \* which script runs: "ssm" (ssm.py), "ssmc" (ssmc.py), "send" (send_command alone)
    args,            \* the parsed command line
    catalog,         \* what describe_instances answers: the account's instances, in the provider's order
    jobs,            \* per instance id, the answers the provider can give to a status poll / an output fetch
    pc,              \* the main thread's position
    rix,             \* index of the selector main's resolution loop is at
    instances_ids,   \* ssm.py:71, the resolved ids handed to send_command
    instance_id,     \* the single target of a single-target command ("unset" while unbound)
    exitStatus,      \* -1 while running, else the process's exit status
    error,           \* why the process ended
    command_id,      \* ec2.py:194
    request,         \* the parameters of the ssm.send_command request issued (ec2.py:189-193)
    invocations,     \* the status polls and output fetches issued, each with its CommandId and InstanceId
    sendCount,       \* ssm.send_command requests issued
    describeCount,   \* ec2.describe_instances requests issued
    promptReads,     \* lines read with input() by a selection prompt
    confirmReads,    \* lines read by the proceed/abort confirmation
    answer,          \* the last line the operator typed
    displayed,       \* the enumerated list the last selection prompt printed
    considered,      \* the candidates the last name resolution was left with
    selected,        \* what the last selection returned
    session,         \* the target handed to the session/transfer subprocess
    cluster,         \* ssmc.py:140
    service,         \* ssmc.py:147
    item_type,       \* the item_type of the multichoice call in progress
    task,            \* per submitted future, the position of its process_one
    attempts,        \* per future, num_attempts of its waiter
    polled,          \* per future, whether its waiter has polled the provider
    fetches,         \* per future, the get_command_invocation calls made
    output,          \* per future, process_one's local output
    lock,            \* 0 when free, else the future holding the lock
    output_results,  \* ec2.py:207
    progress_bars,   \* ec2.py:208, updates received per instance id
    yielded,         \* the futures as_completed has handed to the loop
    raised,          \* the exception main carries out of the pool block ("none" if none)
    pending_at_exit, \* what the futures not yet finished were doing ("queued", "running") when the as_completed loop ended
    report           \* the printed report, one <<id, name, output>> per line

vars == <<prog, args, catalog, jobs, pc, rix, instances_ids, instance_id,
          exitStatus, error, command_id, request, invocations, sendCount,
          describeCount,
          promptReads, confirmReads, answer, displayed, considered,
          selected, session, cluster, service, item_type, task, attempts, polled, fetches, output, lock,
          output_results, progress_bars, yielded, raised, pending_at_exit,
          report>>

(***************************************************************************)
(* Bounds of the check                                                     *)
(***************************************************************************)
MaxSelectors == 2
PoolTargets == 11
MaxReads == 3

(***************************************************************************)
(* Program constants                                                       *)
(***************************************************************************)
MaxWorkers == 10
MaxAttempts == 10

(***************************************************************************)
(* Strings                                                                 *)
(***************************************************************************)
Digits == <<"0", "1", "2", "3", "4", "5", "6", "7", "8", "9">>

RECURSIVE Decimal(_)
Decimal(n) ==
    IF n < 10 THEN <<Digits[n + 1]>>
    ELSE Decimal(n \div 10) \o <<Digits[(n % 10) + 1]>>

Lower(c) ==
    CASE c = "W" -> "w"
      [] c = "E" -> "e"
      [] c = "B" -> "b"
      [] c = "A" -> "a"
      [] c = "D" -> "d"
      [] c = "Y" -> "y"
      [] c = "N" -> "n"
      [] OTHER -> c

LowerStr(s) == [i \in 1..Len(s) |-> Lower(s[i])]

\* variant: no selector is taken for an id, every one is looked up by name
StartsWithNever(s, p) == FALSE

StartsWith(s, p) == Len(s) >= Len(p) /\ SubSeq(s, 1, Len(p)) = p

Contains(s, p) ==
    \E i \in 0..(Len(s) - Len(p)) : SubSeq(s, i + 1, i + Len(p)) = p

IsSpace(c) == c \in {" ", "\n", "\t"}

RECURSIVE LStrip(_)
LStrip(s) == IF s # <<>> /\ IsSpace(Head(s)) THEN LStrip(Tail(s)) ELSE s

RECURSIVE RStrip(_)
RStrip(s) ==
    IF s # <<>> /\ IsSpace(s[Len(s)]) THEN RStrip(SubSeq(s, 1, Len(s) - 1)) ELSE s

Strip(s) == RStrip(LStrip(s))

Min(a, b) == IF a <= b THEN a ELSE b

(***************************************************************************)
(* Python values of more than one shape (a str, None, a list, an unbound   *)
(* local) and the outcome of an expression that may raise                  *)
(***************************************************************************)
None == [kind |-> "None"]
Unbound == [kind |-> "Unbound"]
Str(s) == [kind |-> "str", v |-> s]
List(l) == [kind |-> "list", v |-> l]
Truthy(x) == x.kind \in {"str", "list"} /\ x.v # <<>>

Returns(x) == [raises |-> "none", value |-> x]
Raises(e) == [raises |-> e, value |-> None]

(***************************************************************************)
(* The provider's records (boto3 describe_instances): InstanceId, State    *)
(* and, only for an instance that has tags, Tags                           *)
(***************************************************************************)
Id1 == <<"i", "-", "1">>
Id2 == <<"i", "-", "2">>
Id3 == <<"i", "-", "3">>
Id4 == <<"i", "-", "4">>
Id5 == <<"i", "-", "5">>
NameWeb == <<"w", "e", "b">>
NameWebA == <<"w", "e", "b", "-", "a">>
NameWebB == <<"w", "e", "b", "-", "b">>
NameDb1 == <<"D", "b", "-", "1">>
NameTag(v) == [Key |-> "Name", Value |-> v]
EnvTag == [Key |-> "Env", Value |-> <<"d", "e", "v">>]

Instance(id, tags, state) ==
    [InstanceId |-> id, Tags |-> tags, State |-> [Name |-> state]]
Untagged(id, state) == [InstanceId |-> id, State |-> [Name |-> state]]

InstWebA == Instance(Id1, <<NameTag(NameWebA)>>, "running")
InstWebB == Instance(Id2, <<EnvTag, NameTag(NameWebB)>>, "running")
InstDb1 == Instance(Id3, <<NameTag(NameDb1)>>, "stopped")
InstWebB2 == Instance(Id4, <<NameTag(NameWebB)>>, "running")
InstBare == Untagged(Id5, "running")

Catalogs ==
    { <<>>,
      <<InstWebA>>,
      <<InstWebA, InstWebB, InstDb1>>,
      <<InstWebB2, InstWebB, InstWebA>>,
      <<InstWebB, InstBare>> }

Selectors == {Id2, NameWebB, NameWeb}

Commands ==
    {"send-command", "ssh", "port-forward", "port-forward-remote",
     "scp-to", "scp-from", "None"}

RECURSIVE SeqsUpTo(_, _)
SeqsUpTo(S, n) ==
    IF n = 0 THEN {<<>>}
    ELSE LET shorter == SeqsUpTo(S, n - 1)
         IN  shorter \cup {Append(q, x) : q \in shorter, x \in S}

Range(q) == {q[i] : i \in 1..Len(q)}

HasKey(d, k) == k \in DOMAIN d

\* the first Name tag's value, or dflt: next((tag['Value'] for tag in x['Tags'] if tag['Key'] == 'Name'), dflt)
RECURSIVE NameOfTags(_, _)
NameOfTags(tags, dflt) ==
    IF tags = <<>> THEN dflt
    ELSE IF Head(tags).Key = "Name" THEN Head(tags).Value
    ELSE NameOfTags(Tail(tags), dflt)

\* {x['Key']: x['Value'] for x in inst['Tags']}.get('Name', dflt): the last Name tag wins
RECURSIVE DictNameOfTags(_, _)
DictNameOfTags(tags, dflt) ==
    IF tags = <<>> THEN dflt
    ELSE IF tags[Len(tags)].Key = "Name" THEN tags[Len(tags)].Value
    ELSE DictNameOfTags(SubSeq(tags, 1, Len(tags) - 1), dflt)

\* ec2.describe_instances(Filters=[tag:Name = name, instance-state-name = running])
DescribeByName(name) ==
    LET Match(r) ==
            /\ HasKey(r, "Tags")
            /\ \E i \in 1..Len(r.Tags) : r.Tags[i] = NameTag(name)
            /\ r.State.Name = "running"
    IN  SelectSeq(catalog, Match)

\* ec2.describe_instances(InstanceIds=[id])
DescribeById(id) == SelectSeq(catalog, LAMBDA r : r.InstanceId = id)

get_all_instances == catalog

\* variant: the last match is taken instead of the first
get_instance_id_by_name_last(name) ==
    LET found == DescribeByName(name)
    IN  IF found # <<>> THEN Str(found[Len(found)].InstanceId) ELSE None

get_instance_id_by_name(name) ==
    LET found == DescribeByName(name)
    IN  IF found # <<>> THEN Str(found[1].InstanceId) ELSE None

get_instance_name_by_id(id) ==
    LET found == DescribeById(id)
    IN  IF found # <<>> /\ HasKey(found[1], "Tags")
        THEN LET n == NameOfTags(found[1].Tags, <<>>)
             IN  IF \E i \in 1..Len(found[1].Tags) : found[1].Tags[i].Key = "Name"
                 THEN Str(n) ELSE None
        ELSE None

(***************************************************************************)
(* Sorting and parsing as Python does them                                 *)
(***************************************************************************)
\* the characters in use, in code point order
Alphabet ==
    <<"\t", "\n", " ", "+", "-", "0", "1", "2", "3", "4", "5", "6", "7", "8",
      "9", "A", "B", "D", "E", "N", "W", "Y", "a", "b", "c", "d", "e", "i",
      "k", "l", "n", "o", "p", "s", "t", "u", "v", "w", "x", "y">>

CharRank(c) == CHOOSE i \in 1..Len(Alphabet) : Alphabet[i] = c

RECURSIVE StrLess(_, _)
StrLess(a, b) ==
    IF b = <<>> THEN FALSE
    ELSE IF a = <<>> THEN TRUE
    ELSE IF Head(a) = Head(b) THEN StrLess(Tail(a), Tail(b))
    ELSE CharRank(Head(a)) < CharRank(Head(b))

\* list.sort(key=...) on <<key, item>> pairs: ascending by key, equal keys keep their order
InsertPair(sorted, p) ==
    LET k == Cardinality({i \in 1..Len(sorted) : ~StrLess(p[1], sorted[i][1])})
    IN  SubSeq(sorted, 1, k) \o <<p>> \o SubSeq(sorted, k + 1, Len(sorted))

RECURSIVE SortPairs(_)
SortPairs(q) ==
    IF q = <<>> THEN <<>>
    ELSE InsertPair(SortPairs(SubSeq(q, 1, Len(q) - 1)), q[Len(q)])

\* keys[i] is the key computed for q[i]
SortByKey(q, keys) ==
    LET pairs == SortPairs([i \in 1..Len(q) |-> <<keys[i], q[i]>>])
    IN  [i \in 1..Len(q) |-> pairs[i][2]]

DigitValue(c) == (CHOOSE i \in 1..10 : Digits[i] = c) - 1

RECURSIVE DigitsValue(_)
DigitsValue(ds) ==
    IF ds = <<>> THEN 0
    ELSE 10 * DigitsValue(SubSeq(ds, 1, Len(ds) - 1)) + DigitValue(ds[Len(ds)])

\* int(s): surrounding blanks dropped, an optional sign, then one or more digits
ParseInt(s) ==
    LET t == Strip(s)
        signed == t # <<>> /\ t[1] \in {"+", "-"}
        ds == IF signed THEN Tail(t) ELSE t
    IN  IF ds = <<>> \/ \E i \in 1..Len(ds) : ds[i] \notin Range(Digits)
        THEN [raises |-> "ValueError", value |-> 0]
        ELSE [raises |-> "none",
              value |-> IF signed /\ t[1] = "-" THEN 0 - DigitsValue(ds)
                        ELSE DigitsValue(ds)]

\* a KeyboardInterrupt delivered while input() blocks
Interrupt == <<"^C">>

SelectLines ==
    { <<"1">>, <<"2">>, <<" ", "2", " ">>, <<"3">>, <<"0">>, <<"-", "1">>,
      <<"x">>, <<>>, Interrupt }

ConfirmLines == { <<"y">>, <<"Y">>, <<"n">>, <<"y", "e", "s">>, <<>>, Interrupt }

(***************************************************************************)
(* select_instance (ssm.py:8-50), up to the prompt                         *)
(***************************************************************************)
\* ssm.py:19-21
FilterByName(instances, instance_name) ==
    IF ~Truthy(instance_name) THEN Returns(instances)
    ELSE IF \E i \in 1..Len(instances) : ~HasKey(instances[i], "Name")
    THEN Raises("KeyError")
    ELSE Returns(SelectSeq(instances,
             LAMBDA inst : Contains(LowerStr(inst.Name), LowerStr(instance_name.v))))

\* ssm.py:28-30: the f-string reads instances[0]['Id'] and ['Name'] before the return
OnlyOneInstance(inst) ==
    IF ~HasKey(inst, "Id") \/ ~HasKey(inst, "Name") THEN Raises("KeyError")
    ELSE Returns(Str(inst.InstanceId))

\* ssm.py:33
SortInstances(instances) ==
    IF \E i \in 1..Len(instances) : ~HasKey(instances[i], "Tags")
    THEN Raises("KeyError")
    ELSE Returns(SortByKey(instances, [i \in 1..Len(instances) |-> NameOfTags(instances[i].Tags, <<>>)]))

\* ssm.py:36-38, the lines printed: index + 1, InstanceId, Name or N/A
DisplayInstances(instances) ==
    [i \in 1..Len(instances) |->
        [InstanceId |-> instances[i].InstanceId,
         Name |-> DictNameOfTags(instances[i].Tags, <<"N", "/", "A">>)]]

(***************************************************************************)
(* ssm.py main                                                             *)
(***************************************************************************)
inputVars == <<prog, args, catalog, jobs>>
poolVars ==
    <<task, attempts, polled, fetches, output, lock, output_results,
      progress_bars, yielded, raised, pending_at_exit, invocations>>
ssmcVars == <<cluster, service, item_type>>
promptVars == <<promptReads, answer, displayed, selected>>
sendVars == <<command_id, request, sendCount, confirmReads, report>>

IdPrefix == <<"i", "-">>

\* sys.exit(status), parser.error (status 2), or an exception nobody catches (status 1)
Exit(status, why) == pc' = "exit" /\ exitStatus' = status /\ error' = why
Goto(p) == pc' = p /\ UNCHANGED <<exitStatus, error>>

\* ssm.py:72-76
Main_SendCommand ==
    /\ prog = "ssm" /\ pc = "main" /\ args.command = "send-command"
    /\ IF ~Truthy(args.shell_comand) \/ args.instances = <<>>
       THEN Exit(2, "usage")
       ELSE Goto("resolve")
    /\ UNCHANGED <<inputVars, poolVars, ssmcVars, promptVars, sendVars, rix,
                   instances_ids, instance_id, describeCount, considered, session>>

\* ssm.py:79-90, one turn of the loop; after the last selector, send_command is called
ResolveSelector ==
    /\ prog = "ssm" /\ pc = "resolve" /\ rix <= Len(args.instances)
    /\ LET instance == args.instances[rix]
           next == IF rix = Len(args.instances) THEN "send_request" ELSE "resolve"
       IN  IF StartsWith(instance, IdPrefix)
           THEN /\ instances_ids' = Append(instances_ids, instance)
                /\ rix' = rix + 1
                /\ Goto(next)
                /\ UNCHANGED <<describeCount, considered>>
           ELSE LET r == get_instance_id_by_name(instance)
                IN  /\ describeCount' = describeCount + 1
                    /\ considered' = DescribeByName(instance)
                    /\ IF Truthy(r)
                       THEN /\ instances_ids' = Append(instances_ids, r.v)
                            /\ rix' = rix + 1
                            /\ Goto(next)
                       ELSE /\ Exit(1, "NotFound")
                            /\ UNCHANGED <<instances_ids, rix>>
    /\ UNCHANGED <<inputVars, poolVars, ssmcVars, promptVars, sendVars,
                   instance_id, session>>

\* ssm.py:96, 120, 155: args.instances > 1, a list compared with an int
InstancesGreaterThanOne == Raises("TypeError")

\* ssm.py:188, 213, 240: len(args.instances) > 1
LenInstancesGreaterThanOne == Returns(Len(args.instances) > 1)

\* the "Resolve instance" blocks of the single-target commands: checkNone is
\* whether the block tests the lookup's result, idValue what an explicit id is bound to
ResolveSingle(checkNone, idValue) ==
    IF args.instances # <<>>
    THEN LET instance == args.instances[1]
         IN  IF StartsWith(instance, IdPrefix)
             THEN /\ instance_id' = idValue
                  /\ Goto("connect")
                  /\ UNCHANGED <<describeCount, considered>>
             ELSE LET r == get_instance_id_by_name(instance)
                  IN  /\ describeCount' = describeCount + 1
                      /\ considered' = DescribeByName(instance)
                      /\ instance_id' = r
                      /\ IF checkNone /\ ~Truthy(r)
                         THEN Exit(1, "NotFound")
                         ELSE Goto("connect")
    ELSE /\ Goto("select")
         /\ UNCHANGED <<instance_id, describeCount, considered>>

\* the count check every single-target command starts with, then its resolution
SingleTarget(count, checkNone, idValue) ==
    /\ IF count.raises # "none"
       THEN /\ Exit(1, count.raises)
            /\ UNCHANGED <<instance_id, describeCount, considered>>
       ELSE IF count.value
       THEN /\ Exit(2, "usage")
            /\ UNCHANGED <<instance_id, describeCount, considered>>
       ELSE ResolveSingle(checkNone, idValue)
    /\ UNCHANGED <<inputVars, poolVars, ssmcVars, promptVars, sendVars, rix,
                   instances_ids, session>>

\* ssm.py:93-112
Main_Ssh ==
    /\ prog = "ssm" /\ pc = "main" /\ args.command = "ssh"
    /\ SingleTarget(InstancesGreaterThanOne, FALSE, Str(args.instances[1]))

\* ssm.py:115-147; line 138 binds instance_id to the whole list
Main_PortForward ==
    /\ prog = "ssm" /\ pc = "main" /\ args.command = "port-forward"
    /\ SingleTarget(InstancesGreaterThanOne, TRUE, List(args.instances))

\* ssm.py:150-182
Main_PortForwardRemote ==
    /\ prog = "ssm" /\ pc = "main" /\ args.command = "port-forward-remote"
    /\ SingleTarget(InstancesGreaterThanOne, TRUE, Str(args.instances[1]))

\* ssm.py:185-232, scp-to and scp-from
Main_Scp ==
    /\ prog = "ssm" /\ pc = "main" /\ args.command \in {"scp-to", "scp-from"}
    /\ SingleTarget(LenInstancesGreaterThanOne, TRUE, Str(args.instances[1]))

\* ssm.py:235-254; line 247 looks up instance_id, which nothing has bound yet
Main_Default ==
    /\ prog = "ssm" /\ pc = "main" /\ args.command = "None"
    /\ IF args.instances = <<>>
       THEN /\ Goto("select")
            /\ UNCHANGED <<instance_id, describeCount, considered>>
       ELSE IF Len(args.instances) > 1
       THEN /\ Exit(2, "usage")
            /\ UNCHANGED <<instance_id, describeCount, considered>>
       ELSE IF StartsWith(args.instances[1], IdPrefix)
       THEN /\ instance_id' = Str(args.instances[1])
            /\ Goto("connect")
            /\ UNCHANGED <<describeCount, considered>>
       ELSE IF instance_id.kind = "Unbound"
       THEN /\ Exit(1, "UnboundLocalError")
            /\ UNCHANGED <<instance_id, describeCount, considered>>
       ELSE LET r == get_instance_id_by_name(instance_id.v)
            IN  /\ describeCount' = describeCount + 1
                /\ considered' = DescribeByName(instance_id.v)
                /\ instance_id' = r
                /\ IF ~Truthy(r) THEN Exit(1, "NotFound") ELSE Goto("connect")
    /\ UNCHANGED <<inputVars, poolVars, ssmcVars, promptVars, sendVars, rix,
                   instances_ids, session>>

\* ssm.py:16-38: select_instance(client), called without a name, up to its prompt
SelectList ==
    /\ prog = "ssm" /\ pc = "select"
    /\ describeCount' = describeCount + 1
    /\ LET f == FilterByName(get_all_instances, None)
           instances == f.value
       IN  IF f.raises # "none"
           THEN /\ Exit(1, f.raises)
                /\ UNCHANGED <<considered, displayed, selected, instance_id>>
           ELSE /\ considered' = instances
                /\ IF instances = <<>>
                   THEN /\ Exit(1, "NotFound")
                        /\ UNCHANGED <<displayed, selected, instance_id>>
                   ELSE IF Len(instances) = 1
                   THEN LET one == OnlyOneInstance(instances[1])
                        IN  IF one.raises # "none"
                            THEN /\ Exit(1, one.raises)
                                 /\ UNCHANGED <<displayed, selected, instance_id>>
                            ELSE /\ Goto("connect")
                                 /\ instance_id' = one.value
                                 /\ selected' = one.value
                                 /\ UNCHANGED displayed
                   ELSE LET sorted == SortInstances(instances)
                        IN  IF sorted.raises # "none"
                            THEN /\ Exit(1, sorted.raises)
                                 /\ UNCHANGED <<displayed, selected, instance_id>>
                            ELSE /\ Goto("select_prompt")
                                 /\ displayed' = DisplayInstances(sorted.value)
                                 /\ UNCHANGED <<selected, instance_id>>
    /\ UNCHANGED <<inputVars, poolVars, ssmcVars, sendVars, rix, instances_ids,
                   promptReads, answer, session>>

\* ssm.py:41-50 (and 258-263 for the interrupt): one line is read
SelectPrompt ==
    /\ prog = "ssm" /\ pc = "select_prompt"
    /\ \E line \in SelectLines :
        /\ answer' = line
        /\ promptReads' = promptReads + 1
        /\ IF line = Interrupt
           THEN /\ Exit(0, "Cancelled")
                /\ UNCHANGED <<selected, instance_id>>
           ELSE LET n == ParseInt(Strip(line))
                    choice == n.value - 1
                IN  IF n.raises # "none"
                    THEN /\ Exit(1, "InvalidInput")
                         /\ UNCHANGED <<selected, instance_id>>
                    ELSE IF 0 <= choice /\ choice < Len(displayed)
                    THEN /\ Goto("connect")
                         /\ instance_id' = Str(displayed[choice + 1].InstanceId)
                         /\ selected' = Str(displayed[choice + 1].InstanceId)
                    ELSE /\ Exit(1, "InvalidSelection")
                         /\ UNCHANGED <<selected, instance_id>>
    /\ UNCHANGED <<inputVars, poolVars, ssmcVars, sendVars, rix, instances_ids,
                   describeCount, considered, displayed, session>>

\* the session or transfer subprocess is started on instance_id
\* (ssm.py:108, 147, 182, 201, 226, 254)
Connect ==
    /\ prog = "ssm" /\ pc = "connect"
    /\ session' = instance_id
    /\ \E ok \in BOOLEAN : IF ok THEN Exit(0, "none") ELSE Exit(1, "SessionFailed")
    /\ UNCHANGED <<inputVars, poolVars, ssmcVars, promptVars, sendVars, rix,
                   instances_ids, instance_id, describeCount, considered>>

(***************************************************************************)
(* EC2Client.send_command (ec2.py:181-253) and wait_for_command (255-269)  *)
(***************************************************************************)
mainVars ==
    <<rix, instances_ids, instance_id, describeCount, considered, session>>

Futures == 1..Len(task)
Terminal(i) == task[i] \in {"done", "failed", "timed_out"}
Running(i) == task[i] \in {"wait", "fetch", "lock", "append"}
RunningCount == Cardinality({i \in Futures : Running(i)})

\* what the provider holds as the command's standard output on an instance
StdoutOf(id) == <<"o", "u", "t">> \o SubSeq(id, 3, Len(id)) \o <<"\n">>
FetchErrorText == <<"Error retrieving output">>

\* the provider rejects a send to an instance id it does not know
ValidTargets == \A i \in 1..Len(instances_ids) : DescribeById(instances_ids[i]) # <<>>

\* ec2.py:188-198 and 251-253: the request is sent, then its id is printed
SendRequest ==
    /\ pc = "send_request"
    /\ sendCount' = sendCount + 1
    /\ \E ok \in (IF ValidTargets THEN BOOLEAN ELSE {FALSE}) :
          IF ok
          THEN command_id' = "cmd-1" /\ Goto("confirm")
          ELSE Exit(1, "DispatchError") /\ UNCHANGED command_id
    /\ request' = [InstanceIds |-> instances_ids,
                   commands |-> <<args.shell_comand.v>>]
    /\ UNCHANGED <<inputVars, poolVars, ssmcVars, promptVars, mainVars,
                   confirmReads, report>>

\* variant: the answer to the confirmation is not looked at
ProceedsAlways(procede) == TRUE

\* ec2.py:200: procede.lower() != "y" aborts; only y or Y goes on
Proceeds(procede) == LowerStr(procede) = <<"y">>

\* ec2.py:199-214: the confirmation, then the lock, the results list and the bars
Confirm ==
    /\ pc = "confirm"
    /\ \E procede \in ConfirmLines :
        /\ confirmReads' = confirmReads + 1
        /\ answer' = procede
        /\ IF procede = Interrupt
           THEN Exit(0, "Cancelled") /\ UNCHANGED progress_bars
           ELSE IF ~Proceeds(procede)
           THEN Exit(1, "Aborted") /\ UNCHANGED progress_bars
           ELSE /\ Goto("submit")
                /\ progress_bars' = [id \in Range(instances_ids) |-> 0]
    /\ UNCHANGED <<inputVars, ssmcVars, mainVars, promptReads, displayed,
                   selected, command_id, request, sendCount, report, task,
                   attempts, polled, fetches, output, lock, output_results,
                   yielded, raised, pending_at_exit, invocations>>

\* ec2.py:238
max_workers == Min(MaxWorkers, Len(instances_ids))

\* ec2.py:239: executor.submit(process_one, inst_id), one future per target
Submit ==
    /\ pc = "submit"
    /\ task' = Append(task, "queued")
    /\ attempts' = Append(attempts, 0)
    /\ polled' = Append(polled, FALSE)
    /\ fetches' = Append(fetches, 0)
    /\ output' = Append(output, <<>>)
    /\ Goto(IF Len(task) + 1 = Len(instances_ids) THEN "collect" ELSE "submit")
    /\ UNCHANGED <<inputVars, ssmcVars, promptVars, mainVars, sendVars, lock,
                   output_results, progress_bars, yielded, raised,
                   pending_at_exit, invocations>>

\* the executor's workers: at most max_workers threads, each taking the oldest
\* queued work item when it is free
\* variant: a queued work item is started whatever the number of busy workers
CanStartUncapped(i) ==
    /\ task[i] = "queued"
    /\ \A j \in 1..(i - 1) : task[j] # "queued"

CanStart(i) ==
    /\ task[i] = "queued"
    /\ \A j \in 1..(i - 1) : task[j] # "queued"
    /\ RunningCount < max_workers

futureVars == <<fetches, output, lock, output_results, progress_bars>>

\* ec2.py:216-218: a worker begins process_one(instance_ids[i])
Start(i) ==
    /\ CanStart(i)
    /\ task' = [task EXCEPT ![i] = "wait"]
    /\ UNCHANGED <<inputVars, ssmcVars, promptVars, mainVars, sendVars, pc,
                   exitStatus, error, attempts, polled, futureVars, yielded,
                   raised, pending_at_exit, invocations>>

\* variant: the waiter gives up one poll late
WaiterTurnOffByOne(num_attempts, status) ==
    IF status = "Success" THEN "success"
    ELSE IF status = "Failed" THEN "failure"
    ELSE IF num_attempts + 1 > MaxAttempts THEN "exhausted"
    ELSE "retry"

\* one turn of the waiter's loop for an answer of the provider (ec2.py:261-267):
\* the waiter returns on success, raises on a failure state, and raises once
\* num_attempts reaches MaxAttempts
WaiterTurn(num_attempts, status) ==
    IF status = "Success" THEN "success"
    ELSE IF status = "Failed" THEN "failure"
    ELSE IF num_attempts + 1 >= MaxAttempts THEN "exhausted"
    ELSE "retry"

\* variant: the waiter polls under an id the request did not return
WaiterCommandIdStale == "none"

\* ec2.py:218: self.wait_for_command(command_id, instance_id)
WaiterCommandId == command_id

\* ec2.py:255-269: one poll of future i's waiter; a WaiterError leaves
\* process_one as a RuntimeError
Poll(i) ==
    /\ task[i] = "wait"
    /\ \E status \in jobs[instances_ids[i]].poll :
        LET turn == WaiterTurn(attempts[i], status)
        IN  /\ task' = [task EXCEPT ![i] =
                           CASE turn = "success" -> "fetch"
                             [] turn = "failure" -> "failed"
                             [] turn = "exhausted" -> "timed_out"
                             [] OTHER -> "wait"]
            /\ attempts' = [attempts EXCEPT ![i] =
                               IF turn = "retry" THEN attempts[i] + 1 ELSE 0]
    /\ polled' = [polled EXCEPT ![i] = TRUE]
    /\ invocations' = invocations \cup
          {[call |-> "poll", CommandId |-> WaiterCommandId,
            InstanceId |-> instances_ids[i]]}
    /\ UNCHANGED <<inputVars, ssmcVars, promptVars, mainVars, sendVars, pc,
                   exitStatus, error, futureVars, yielded, raised,
                   pending_at_exit>>

\* variant: a failed fetch ends process_one with the exception
AfterFetchRaises(ok) == IF ok THEN "lock" ELSE "failed"

\* ec2.py:227-231: except Exception turns a failed fetch into the output text,
\* and process_one goes on to the bar and the lock either way
AfterFetch(ok) == "lock"

\* ec2.py:220-231: the output is fetched (an exception becomes the text), the bar updated
Fetch(i) ==
    /\ task[i] = "fetch"
    /\ \E ok \in jobs[instances_ids[i]].fetch :
          /\ output' = [output EXCEPT ![i] =
                           IF ok THEN Strip(StdoutOf(instances_ids[i]))
                           ELSE FetchErrorText]
          /\ invocations' = invocations \cup
                {[call |-> "fetch", CommandId |-> command_id,
                  InstanceId |-> instances_ids[i], ok |-> ok]}
          /\ task' = [task EXCEPT ![i] = AfterFetch(ok)]
    /\ fetches' = [fetches EXCEPT ![i] = fetches[i] + 1]
    /\ progress_bars' = [progress_bars EXCEPT ![instances_ids[i]] = @ + 1]
    /\ UNCHANGED <<inputVars, ssmcVars, promptVars, mainVars, sendVars, pc,
                   exitStatus, error, attempts, polled, lock, output_results,
                   yielded, raised, pending_at_exit>>

\* variant: the lock is handed out whoever holds it
LockFreeAlways == TRUE

\* threading.Lock (ec2.py:206): acquire returns only when no thread holds it
LockFree == lock = 0

\* ec2.py:234, with lock: entered
Acquire(i) ==
    /\ task[i] = "lock"
    /\ LockFree
    /\ lock' = i
    /\ task' = [task EXCEPT ![i] = "append"]
    /\ UNCHANGED <<inputVars, ssmcVars, promptVars, mainVars, sendVars, pc,
                   exitStatus, error, attempts, polled, fetches, output,
                   output_results, progress_bars, yielded, raised,
                   pending_at_exit, invocations>>

\* ec2.py:235: the append, and the lock released
AppendResult(i) ==
    /\ task[i] = "append"
    /\ output_results' = Append(output_results, <<instances_ids[i], output[i]>>)
    /\ lock' = 0
    /\ task' = [task EXCEPT ![i] = "done"]
    /\ UNCHANGED <<inputVars, ssmcVars, promptVars, mainVars, sendVars, pc,
                   exitStatus, error, attempts, polled, fetches, output,
                   progress_bars, yielded, raised, pending_at_exit, invocations>>

\* ec2.py:240-241: as_completed hands over a finished future; result() re-raises
\* what process_one raised, which ends the loop (and the generator with it)
Collect ==
    /\ pc = "collect"
    /\ \E i \in Futures \ yielded :
        /\ Terminal(i)
        /\ IF task[i] # "done"
           THEN /\ raised' = "RuntimeError"
                /\ pending_at_exit' =
                       {"queued" : j \in {j \in Futures : task[j] = "queued"}}
                       \cup {"running" : j \in {j \in Futures : Running(j)}}
                /\ yielded' = {}
                /\ Goto("shutdown")
           ELSE IF yielded \cup {i} = Futures
           THEN /\ yielded' = {}
                /\ Goto("shutdown")
                /\ UNCHANGED <<raised, pending_at_exit>>
           ELSE /\ yielded' = yielded \cup {i}
                /\ Goto("collect")
                /\ UNCHANGED <<raised, pending_at_exit>>
    /\ UNCHANGED <<inputVars, ssmcVars, promptVars, mainVars, sendVars, task,
                   attempts, polled, futureVars, invocations>>

\* ec2.py:240 with ssm.py:258-263: a KeyboardInterrupt reaches the main thread
\* while it waits in as_completed; it leaves the loop as any exception does
InterruptWait ==
    /\ pc = "collect"
    /\ raised' = "KeyboardInterrupt"
    /\ pending_at_exit' =
           {"queued" : j \in {j \in Futures : task[j] = "queued"}}
           \cup {"running" : j \in {j \in Futures : Running(j)}}
    /\ yielded' = {}
    /\ Goto("shutdown")
    /\ UNCHANGED <<inputVars, ssmcVars, promptVars, mainVars, sendVars, task,
                   attempts, polled, futureVars, invocations>>

\* variant: the block is left without waiting for the workers
ShutdownNoWait == TRUE

\* leaving the with block: ThreadPoolExecutor.__exit__ is shutdown(wait=True),
\* which returns when the workers have run every work item
ShutdownReturns == \A i \in Futures : Terminal(i)

\* ec2.py:238-244 and 251: the block is left; an exception that is no ClientError
\* passes the except clause and ends the process, a KeyboardInterrupt through
\* the handler of ssm.py:261-263
Shutdown ==
    /\ pc = "shutdown"
    /\ ShutdownReturns
    /\ IF raised = "KeyboardInterrupt" THEN Exit(0, "Cancelled")
       ELSE IF raised # "none" THEN Exit(1, raised)
       ELSE Goto("report")
    /\ UNCHANGED <<inputVars, poolVars, ssmcVars, promptVars, mainVars, sendVars>>

\* the order the report follows (ec2.py:247: for instance_id, output in output_results)
ReportOrder == output_results

\* ec2.py:246-249: one entry is printed, with the name looked up for it
PrintEntry ==
    /\ pc = "report"
    /\ LET k == Len(report) + 1
           entry == ReportOrder[k]
           name == get_instance_name_by_id(entry[1])
       IN  /\ k <= Len(ReportOrder)
           /\ report' = Append(report, <<entry[1], name, entry[2]>>)
           /\ IF k = Len(ReportOrder) THEN Exit(0, "none") ELSE Goto("report")
    /\ describeCount' = describeCount + 1
    /\ UNCHANGED <<inputVars, poolVars, ssmcVars, promptVars, rix,
                   instances_ids, instance_id, considered, session, command_id,
                   request, sendCount, confirmReads>>

(***************************************************************************)
(* ssmc.py: main (121-170) and multichoice (67-119)                        *)
(***************************************************************************)
ClusterA == <<"c", "a">>
ClusterB == <<"c", "b">>
ServiceA == <<"s", "a">>
ServiceB == <<"s", "b">>
\* the dictionaries get_tasks_by_cluster builds (ecs.py:158-163)
TaskDict(name, id) == [Name |-> name, Id |-> id, Time |-> 0, ContainerId |-> id]
TaskA == TaskDict(<<"a", "p", "p">>, <<"t", "1">>)
TaskB == TaskDict(<<"a", "p", "p">>, <<"t", "2">>)

EcsCatalogs ==
    [clusters : {<<>>, <<ClusterA>>, <<ClusterB, ClusterA>>},
     services : {<<>>, <<ServiceA>>, <<ServiceB, ServiceA>>},
     tasks : {<<>>, <<TaskA>>, <<TaskB, TaskA>>}]

Dict(d) == [kind |-> "dict", v |-> d]

\* the list multichoice is called with (ssmc.py:142-143, 149-150, 160-162, 167-169)
ItemsOf(type) ==
    CASE type = "cluster" -> catalog.clusters
      [] type = "service" -> catalog.services
      [] OTHER -> catalog.tasks

\* ssmc.py:140-143
Ssmc_Cluster ==
    /\ prog = "ssmc" /\ pc = "main"
    /\ IF Truthy(args.cluster)
       THEN cluster' = args.cluster /\ Goto("ssmc_service") /\ UNCHANGED item_type
       ELSE item_type' = "cluster" /\ Goto("mc_list") /\ UNCHANGED cluster
    /\ UNCHANGED <<inputVars, poolVars, promptVars, mainVars, sendVars, service>>

\* ssmc.py:147-150
Ssmc_Service ==
    /\ prog = "ssmc" /\ pc = "ssmc_service"
    /\ IF Truthy(args.service)
       THEN service' = args.service /\ Goto("ssmc_tasks") /\ UNCHANGED item_type
       ELSE item_type' = "service" /\ Goto("mc_list") /\ UNCHANGED service
    /\ UNCHANGED <<inputVars, poolVars, promptVars, mainVars, sendVars, cluster>>

\* ssmc.py:154-169 with ecs.py:144-146: the tasks are listed, none ends the run
Ssmc_Tasks ==
    /\ prog = "ssmc" /\ pc = "ssmc_tasks"
    /\ IF catalog.tasks = <<>>
       THEN Exit(1, "NotFound") /\ UNCHANGED item_type
       ELSE item_type' = "task" /\ Goto("mc_list")
    /\ UNCHANGED <<inputVars, poolVars, promptVars, mainVars, sendVars,
                   cluster, service>>

\* where multichoice's caller goes on with the returned item (ssmc.py:143, 150,
\* and 162-163 or 169-170: the session call reads task['task_arn'])
ReturnItem(item) ==
    /\ selected' = item
    /\ CASE item_type = "cluster" ->
                cluster' = item /\ Goto("ssmc_service") /\ UNCHANGED <<service, session>>
         [] item_type = "service" ->
                service' = item /\ Goto("ssmc_tasks") /\ UNCHANGED <<cluster, session>>
         [] OTHER ->
                /\ UNCHANGED <<cluster, service>>
                /\ IF ~HasKey(item.v, "task_arn")
                   THEN Exit(1, "KeyError") /\ UNCHANGED session
                   ELSE /\ session' = Str(item.v.task_arn)
                        /\ \E ok \in BOOLEAN :
                              IF ok THEN Exit(0, "none") ELSE Exit(1, "SessionFailed")

\* ssmc.py:79-84: the print of a single task reads item['display']
OnlyOneItem(item, type) ==
    IF type = "task" /\ ~HasKey(item, "display") THEN Raises("KeyError")
    ELSE Returns(IF type = "task" THEN Dict(item) ELSE Str(item))

\* ssmc.py:86-90
SortItems(items, type) ==
    IF type = "task"
    THEN IF \E i \in 1..Len(items) : ~HasKey(items[i], "display")
         THEN Raises("KeyError")
         ELSE Returns(SortByKey(items, [i \in 1..Len(items) |-> items[i].display]))
    ELSE Returns(SortByKey(items, items))

\* ssmc.py:75-98: multichoice up to its prompt
MultichoiceList ==
    /\ prog = "ssmc" /\ pc = "mc_list"
    /\ LET list_of_items == ItemsOf(item_type)
       IN  IF list_of_items = <<>>
           THEN /\ Exit(1, "NotFound")
                /\ UNCHANGED <<displayed, selected, cluster, service, session>>
           ELSE IF Len(list_of_items) = 1
           THEN LET one == OnlyOneItem(list_of_items[1], item_type)
                IN  IF one.raises # "none"
                    THEN /\ Exit(1, one.raises)
                         /\ UNCHANGED <<displayed, selected, cluster, service, session>>
                    ELSE ReturnItem(one.value) /\ UNCHANGED displayed
           ELSE LET sorted == SortItems(list_of_items, item_type)
                IN  IF sorted.raises # "none"
                    THEN /\ Exit(1, sorted.raises)
                         /\ UNCHANGED <<displayed, selected, cluster, service, session>>
                    ELSE /\ displayed' = sorted.value
                         /\ Goto("mc_prompt")
                         /\ UNCHANGED <<selected, cluster, service, session>>
    /\ UNCHANGED <<inputVars, poolVars, sendVars, item_type, promptReads, answer,
                   rix, instances_ids, instance_id, describeCount, considered>>

\* ssmc.py:101-119: one turn of the prompt loop
MultichoicePrompt ==
    /\ prog = "ssmc" /\ pc = "mc_prompt"
    /\ promptReads < MaxReads
    /\ \E line \in SelectLines :
        /\ answer' = line
        /\ promptReads' = promptReads + 1
        /\ IF line = Interrupt
           THEN Exit(0, "Cancelled") /\ UNCHANGED <<selected, cluster, service, session>>
           ELSE LET choice == Strip(line)
                    choice_num == ParseInt(choice)
                IN  IF choice = <<>> \/ choice_num.raises # "none"
                    THEN Goto("mc_prompt") /\ UNCHANGED <<selected, cluster, service, session>>
                    ELSE IF 1 <= choice_num.value /\ choice_num.value <= Len(displayed)
                    THEN ReturnItem(IF item_type = "task"
                                    THEN Dict(displayed[choice_num.value])
                                    ELSE Str(displayed[choice_num.value]))
                    ELSE Goto("mc_prompt") /\ UNCHANGED <<selected, cluster, service, session>>
    /\ UNCHANGED <<inputVars, poolVars, sendVars, item_type, displayed, rix,
                   instances_ids, instance_id, describeCount, considered>>

(***************************************************************************)
(* Specifications                                                          *)
(***************************************************************************)
\* a shell command given with -c
Uptime == <<"u", "p", "t", "i", "m", "e">>

PollStatuses == {"Success", "InProgress", "Failed"}
AnyJob == [poll |-> PollStatuses, fetch |-> BOOLEAN]

InitState ==
    /\ rix = 1
    /\ instance_id = Unbound
    /\ exitStatus = -1
    /\ error = "none"
    /\ command_id = "none"
    /\ request = None
    /\ invocations = {}
    /\ sendCount = 0
    /\ describeCount = 0
    /\ promptReads = 0
    /\ confirmReads = 0
    /\ answer = <<>>
    /\ displayed = <<>>
    /\ considered = <<>>
    /\ selected = None
    /\ session = None
    /\ cluster = None
    /\ service = None
    /\ item_type = "none"
    /\ task = <<>>
    /\ attempts = <<>>
    /\ polled = <<>>
    /\ fetches = <<>>
    /\ output = <<>>
    /\ lock = 0
    /\ output_results = <<>>
    /\ progress_bars = <<>>
    /\ yielded = {}
    /\ raised = "none"
    /\ pending_at_exit = {}
    /\ report = <<>>

\* the provider of an ssm.py invocation: the command ends at once on i-2, well
\* or failed, and its output may be impossible to fetch; on i-4 it may stay in
\* progress for any number of polls; elsewhere it succeeds
ProviderJobs ==
    [id \in {Id1, Id2, Id3, Id4, Id5} |->
        CASE id = Id2 -> [poll |-> {"Success", "Failed"}, fetch |-> BOOLEAN]
          [] id = Id4 -> [poll |-> {"Success", "InProgress"}, fetch |-> {TRUE}]
          [] OTHER -> [poll |-> {"Success"}, fetch |-> {TRUE}]]

\* an invocation of ssm.py
InitSsm ==
    /\ prog = "ssm"
    /\ args \in [command : Commands, instances : SeqsUpTo(Selectors, MaxSelectors),
                 shell_comand : {None, Str(Uptime)}]
    /\ catalog \in Catalogs
    /\ jobs = ProviderJobs
    /\ pc = "main"
    /\ instances_ids = <<>>
    /\ InitState

\* an invocation of ssmc.py
InitSsmc ==
    /\ prog = "ssmc"
    /\ args \in [command : {"None", "port-forward"},
                 cluster : {None, Str(ClusterA)},
                 service : {None, Str(ServiceA)}]
    /\ catalog \in EcsCatalogs
    /\ jobs = <<>>
    /\ pc = "main"
    /\ instances_ids = <<>>
    /\ InitState

Init == InitSsm \/ InitSsmc

WorkerStep ==
    \E i \in Futures :
        \/ Start(i)
        \/ Poll(i)
        \/ Fetch(i)
        \/ Acquire(i)
        \/ AppendResult(i)

SendCommandStep ==
    \/ SendRequest
    \/ Confirm
    \/ Submit
    \/ Collect
    \/ Shutdown
    \/ PrintEntry

Next ==
    \/ Main_SendCommand
    \/ ResolveSelector
    \/ Main_Ssh
    \/ Main_PortForward
    \/ Main_PortForwardRemote
    \/ Main_Scp
    \/ Main_Default
    \/ SelectList
    \/ SelectPrompt
    \/ Connect
    \/ SendCommandStep
    \/ InterruptWait
    \/ WorkerStep
    \/ Ssmc_Cluster
    \/ Ssmc_Service
    \/ Ssmc_Tasks
    \/ MultichoiceList
    \/ MultichoicePrompt

Spec == Init /\ [][Next]_vars

\* send_command called on a batch larger than the pool: instance i-k for k in
\* 1..PoolTargets, and left to run without an interrupt during the wait
PoolId(k) == IdPrefix \o Decimal(k)
PoolIds == [k \in 1..PoolTargets |-> PoolId(k)]
PoolCatalog == [k \in 1..PoolTargets |-> Instance(PoolId(k), <<NameTag(NameWebA)>>, "running")]

\* the large batch is checked with a provider that reports every job but the
\* last as failed at once; the small batch with any provider
InitPool ==
    /\ prog = "send"
    /\ args = [command |-> "send-command", instances |-> <<>>,
               shell_comand |-> Str(Uptime)]
    /\ catalog = PoolCatalog
    /\ \/ /\ instances_ids = PoolIds
          /\ jobs = [id \in Range(PoolIds) |->
                        IF id = PoolId(PoolTargets)
                        THEN [poll |-> {"Success"}, fetch |-> {TRUE}]
                        ELSE [poll |-> {"Failed"}, fetch |-> {TRUE}]]
       \/ /\ instances_ids = <<Id1, Id2>>
          /\ jobs = [id \in {Id1, Id2} |-> AnyJob]
    /\ pc = "send_request"
    /\ InitState

NextPool == SendCommandStep \/ WorkerStep

SpecPool == InitPool /\ [][NextPool]_vars

FairSpecPool == SpecPool /\ WF_vars(NextPool)

(***************************************************************************)
(* Properties                                                              *)
(***************************************************************************)
Finished == pc = "exit"
\* the operator answered y: send_command went on past the confirmation
Confirmed == progress_bars # <<>>
ReportIds == [k \in 1..Len(report) |-> report[k][1]]
EntriesFor(id) == {k \in 1..Len(report) : report[k][1] = id}
IsName(sel) == ~StartsWith(sel, IdPrefix)
SingleTargetCommand == prog = "ssm" /\ args.command # "send-command"

\* C1: when send_command has printed its report, the entries are in the order
\* in which the targets were submitted, whatever order the waiters finished in
C1_ReportInSubmissionOrder ==
    (Finished /\ Confirmed /\ error = "none") => ReportIds = instances_ids

\* C2: when a confirmed send_command finishes, the ids with a report entry are
\* exactly the ids submitted, each with exactly one entry, whether the target
\* succeeded, failed or timed out
C2_ReportCoversSubmitted ==
    (Finished /\ Confirmed /\ error # "Cancelled") =>
        /\ Range(ReportIds) = Range(instances_ids)
        /\ \A id \in Range(instances_ids) : Cardinality(EntriesFor(id)) = 1

\* C3: when the operator declines the confirmation, no send-command request,
\* no status poll and no output fetch has been issued in the run
C3_DeclineIssuesNothing ==
    (Finished /\ error = "Aborted") =>
        /\ sendCount = 0
        /\ \A i \in Futures : ~polled[i] /\ fetches[i] = 0

\* C4: when one waiter exhausts its attempts and the others succeed, the run
\* still ends with a report that has an entry for every target, each sibling's
\* with its own output
C4_TimeoutKeepsSiblings ==
    (/\ Finished /\ Confirmed /\ error # "Cancelled"
     /\ \E i \in Futures :
            /\ task[i] = "timed_out"
            /\ Futures \ {i} # {}
            /\ \A j \in Futures \ {i} : instances_ids[j] # instances_ids[i]
            /\ \A j \in Futures \ {i} : task[j] = "done") =>
        /\ Len(report) = Len(instances_ids)
        /\ \A j \in Futures :
              \E k \in 1..Len(report) :
                  /\ report[k][1] = instances_ids[j]
                  /\ task[j] = "done" => report[k][3] = output[j]

\* C5: control is past the thread-pool block (printing the report, or ended by
\* the error a waiter raised) only when every target has been submitted and
\* every waiter has reached a terminal outcome
C5_PoolLeftAfterAllWaiters ==
    (Confirmed /\ pc \in {"report", "exit"}) =>
        /\ Len(task) = Len(instances_ids)
        /\ \A i \in Futures : Terminal(i)

\* C5 witness: a waiter failed while siblings were running and queued, and the
\* run ended only after the queued sibling had run to its append
C5_Witness ==
    /\ Finished
    /\ raised = "RuntimeError"
    /\ pending_at_exit = {"queued", "running"}
    /\ \E i \in Futures : task[i] = "done"
    /\ \E i \in Futures : task[i] = "failed"

\* C6: at most min(10, N) waiters run at once, and whenever waiters are queued
\* a state follows in which every target has been submitted and no waiter is
\* left queued: each of them was started
C6_PoolBounded ==
    /\ [](RunningCount <= Min(10, Len(instances_ids)))
    /\ (\E i \in Futures : task[i] = "queued")
          ~> (/\ Len(task) = Len(instances_ids)
              /\ \A i \in Futures : task[i] # "queued")

\* C6 witness: of more than ten targets ten waiters run, the last submitted
\* among them: it was queued until a slot was freed
C6_Witness ==
    /\ Len(instances_ids) > 10
    /\ Len(task) = Len(instances_ids)
    /\ RunningCount = 10
    /\ Running(Len(task))

\* a name no candidate's name contains, in any case of letters
MatchesNothing(sel) ==
    /\ IsName(sel)
    /\ \A k \in 1..Len(catalog) :
          ~(HasKey(catalog[k], "Tags")
            /\ Contains(LowerStr(NameOfTags(catalog[k].Tags, <<>>)), LowerStr(sel)))

\* C7: when a selector of the invocation matches no candidate, the run ends
\* with a not-found error and status 1, and neither a send-command request nor
\* a session has been started
C7_NoMatchIsNotFound ==
    (/\ Finished /\ prog = "ssm"
     /\ args.command = "send-command" \/ Len(args.instances) = 1
     /\ \E k \in 1..Len(args.instances) : MatchesNothing(args.instances[k])) =>
        /\ exitStatus = 1
        /\ error = "NotFound"
        /\ sendCount = 0
        /\ session = None

\* select_instance has been called and is past its listing
SelectInstancePastList ==
    /\ prog = "ssm"
    /\ args.instances = <<>>
    /\ args.command \in {"scp-to", "scp-from", "None"}
    /\ pc \notin {"main", "select"}

\* C8: with exactly one candidate, select_instance and multichoice return it
\* and read no line from the prompt
C8_SoleCandidateReturned ==
    /\ (SelectInstancePastList /\ Len(catalog) = 1) =>
          selected = Str(catalog[1].InstanceId) /\ promptReads = 0
    /\ (prog = "ssmc" /\ item_type = "cluster" /\ pc # "mc_list"
        /\ Len(catalog.clusters) = 1) =>
          selected = Str(catalog.clusters[1]) /\ promptReads = 0
    /\ (prog = "ssmc" /\ item_type = "task" /\ pc # "mc_list"
        /\ Len(catalog.tasks) = 1) =>
          selected = Dict(catalog.tasks[1])

\* the candidates whose display name contains the pattern, letters compared
\* without case
SubstringCandidates(pattern) ==
    SelectSeq(catalog,
        LAMBDA r : /\ HasKey(r, "Tags")
                   /\ Contains(LowerStr(NameOfTags(r.Tags, <<>>)), LowerStr(pattern)))

\* send-command's loop has just resolved the name at position k
NameResolvedAt(k) ==
    /\ prog = "ssm" /\ args.command = "send-command"
    /\ k <= Len(args.instances)
    /\ IsName(args.instances[k])
    /\ \/ rix = k + 1 /\ pc \in {"resolve", "send_request"}
       \/ rix = k /\ error = "NotFound"

\* C9: name resolution is left with exactly the candidates whose display name
\* contains the pattern case-insensitively, and with all of them when no
\* pattern is given
C9_ResolutionIsSubstringMatch ==
    /\ \A k \in 1..MaxSelectors + 1 :
          NameResolvedAt(k) => considered = SubstringCandidates(args.instances[k])
    /\ SelectInstancePastList => considered = catalog

\* a single-target invocation whose one selector is a name that two or more
\* running instances carry
AmbiguousName ==
    /\ SingleTargetCommand
    /\ Len(args.instances) = 1
    /\ IsName(args.instances[1])
    /\ Len(DescribeByName(args.instances[1])) >= 2

\* the line typed at a selection prompt is a number within the displayed list
ValidChoice(line) ==
    /\ line # Interrupt
    /\ ParseInt(line).raises = "none"
    /\ ParseInt(line).value \in 1..Len(displayed)

\* what the k-th displayed entry stands for
KthDisplayed(k) ==
    IF prog = "ssm" THEN Str(displayed[k].InstanceId) ELSE Str(displayed[k])

HasIdMark(sel) == Len(sel) >= 2 /\ sel[1] = "i" /\ sel[2] = "-"

\* the selectors send-command's loop has gone through so far that are names:
\* each of them cost one describe query
NamesLookedUp ==
    Cardinality({k \in 1..Len(args.instances) :
                    /\ ~HasIdMark(args.instances[k])
                    /\ k < rix \/ (k = rix /\ error = "NotFound")})

RequestAccepted == command_id # "none"

\* C12: one send-command invocation issues exactly one remote-execution
\* request, with the whole resolved target list and the command text; every
\* poll and fetch carries the command id it returned; when the request fails
\* it is not repeated, the process exits with status 1 and no waiter is started
C12_OneRequestOneCommandId ==
    /\ sendCount <= 1
    /\ (prog = "ssm" /\ pc \in {"confirm", "submit", "collect", "shutdown", "report"}) =>
          sendCount = 1
    /\ sendCount = 1 =>
          /\ request.InstanceIds = instances_ids
          /\ prog = "ssm" => instances_ids # <<>> /\ Len(instances_ids) = Len(args.instances)
          /\ request.commands = <<args.shell_comand.v>>
    /\ \A inv \in invocations : RequestAccepted /\ inv.CommandId = command_id
    /\ error = "DispatchError" =>
          /\ Finished /\ exitStatus = 1 /\ sendCount = 1
          /\ task = <<>> /\ invocations = {}

\* C12 witness: a send to two targets has ended with its report, after one
\* request and a poll and a fetch for each target
C12_Witness ==
    /\ prog = "ssm" /\ Finished /\ exitStatus = 0
    /\ sendCount = 1 /\ Len(request.InstanceIds) = 2
    /\ request.InstanceIds[1] # request.InstanceIds[2]
    /\ Cardinality(invocations) = 4
    /\ Len(report) = 2

\* the fetches issued for an instance id that failed, or that succeeded
FetchesOf(id, ok) ==
    {inv \in invocations : inv.call = "fetch" /\ inv.InstanceId = id /\ inv.ok = ok}

\* every process_one on this id has stored its result
AllStored(id) == \A i \in Futures : instances_ids[i] = id => task[i] = "done"

\* C13: every process_one fetches its target's output exactly once; a fetch
\* that fails does not end process_one: its error text is stored as the
\* target's output and printed as its entry, and the entries of the other
\* targets carry their own output
C13_FetchOnceErrorRecorded ==
    /\ \A i \in Futures :
          /\ task[i] \in {"queued", "wait", "fetch", "failed", "timed_out"} => fetches[i] = 0
          /\ task[i] \in {"lock", "append", "done"} => fetches[i] = 1
    /\ \A inv \in invocations :
          (inv.call = "fetch" /\ AllStored(inv.InstanceId)) =>
              \E k \in 1..Len(output_results) :
                  output_results[k] =
                      <<inv.InstanceId,
                        IF inv.ok THEN Strip(StdoutOf(inv.InstanceId)) ELSE FetchErrorText>>
    /\ (Finished /\ Confirmed /\ error = "none") =>
          /\ Len(report) = Len(instances_ids)
          /\ \A k \in 1..Len(report) :
                /\ report[k][3] = FetchErrorText => FetchesOf(report[k][1], FALSE) # {}
                /\ report[k][3] # FetchErrorText =>
                      /\ FetchesOf(report[k][1], TRUE) # {}
                      /\ report[k][3] = Strip(StdoutOf(report[k][1]))

\* C13 witness: of two targets one's fetch failed; the report has the error
\* text for it and the other's own output
C13_Witness ==
    /\ Finished /\ exitStatus = 0 /\ Len(report) = 2
    /\ report[1][1] # report[2][1]
    /\ report[1][3] = FetchErrorText
    /\ report[2][3] = Strip(StdoutOf(report[2][1]))
    /\ \A i \in Futures : fetches[i] = 1

\* C14: while the selectors of one invocation are resolved (nothing has been
\* dispatched yet), at most one describe query has been issued, however many
\* names are resolved
C14_AtMostOneCatalogFetch ==
    (prog = "ssm" /\ sendCount = 0) => describeCount <= 1

\* C15: the target list of the request send-command issues holds no instance
\* id twice
C15_NoDuplicateTargets ==
    (prog = "ssm" /\ sendCount = 1) =>
        \A i, j \in 1..Len(request.InstanceIds) :
            i # j => request.InstanceIds[i] # request.InstanceIds[j]

\* C16: a single-target command given more than one selector ends before any
\* query or session; given exactly one selector that denotes an instance, it
\* reaches its session with one instance id, a string
C16_SingleTargetExactlyOne ==
    /\ (SingleTargetCommand /\ Len(args.instances) > 1 /\ Finished) =>
          exitStatus > 0 /\ describeCount = 0 /\ session = None
    /\ (/\ SingleTargetCommand /\ Len(args.instances) = 1 /\ Finished
        /\ \/ DescribeById(args.instances[1]) # <<>>
           \/ DescribeByName(args.instances[1]) # <<>>) =>
          session.kind = "str"

\* C17: a run the operator interrupted (at a selection prompt, at the
\* confirmation, or while the waiters were polling) has ended with a non-zero
\* exit status
C17_InterruptExitsNonZero ==
    (Finished /\ error = "Cancelled") => exitStatus # 0

\* the last line read was typed at a selection prompt
AnsweredAtPrompt == promptReads > 0 /\ confirmReads = 0 /\ answer # Interrupt

\* the line is a number, as int() reads it
IsNumeric(line) == ParseInt(Strip(line)).raises = "none"

\* C18: after a non-numeric line at a selection prompt, the selection has not
\* ended: the prompt is up again
C18_NonNumericReprompts ==
    (AnsweredAtPrompt /\ ~IsNumeric(answer)) => pc \in {"select_prompt", "mc_prompt"}

\* C19: after a number outside 1..n at a selection prompt, the selection has
\* ended with an abort, without another prompt
C19_OutOfRangeAborts ==
    (/\ AnsweredAtPrompt /\ IsNumeric(answer)
     /\ ParseInt(Strip(answer)).value \notin 1..Len(displayed)) =>
        Finished /\ error = "InvalidSelection" /\ exitStatus # 0

\* entry a of the displayed instance list may stand before entry b: its name
\* is the smaller one, or the names are equal and its id is not the greater
NameThenId(a, b) ==
    \/ StrLess(a.Name, b.Name)
    \/ a.Name = b.Name /\ ~StrLess(b.InstanceId, a.InstanceId)

\* C20: the list select_instance displays is ordered by name, entries of equal
\* name by id, so that it does not depend on the order of the catalog
C20_DisplayedByNameThenId ==
    (prog = "ssm" /\ pc = "select_prompt") =>
        \A i, j \in 1..Len(displayed) : i < j => NameThenId(displayed[i], displayed[j])

\* main's resolution loop (ssm.py:79-88) has gone through every selector
ResolutionComplete ==
    /\ rix = Len(args.instances) + 1
    /\ Len(instances_ids) = Len(args.instances)

\* the operator typed y or Y at the confirmation (ec2.py:199-200)
OperatorConfirmed == confirmReads = 1 /\ LowerStr(answer) = <<"y">>

\* a line is read from the operator: by a selection prompt or by the confirmation
PromptRead == promptReads' # promptReads \/ confirmReads' # confirmReads

\* C21: in a send-command run the confirmation is read only when every selector
\* is resolved, and nothing is resolved after it; futures, status polls and
\* output fetches exist only once the operator has answered y; and no line is
\* read from the operator once a future has been submitted, so none while a
\* waiter runs
C21_PhasesStrictlyOrdered ==
    /\ []((prog = "ssm" /\ confirmReads > 0) => ResolutionComplete)
    /\ []((task # <<>> \/ invocations # {}) => OperatorConfirmed)
    /\ []((\E i \in Futures : polled[i] \/ fetches[i] > 0) => OperatorConfirmed)
    /\ [][confirmReads > 0 =>
            UNCHANGED <<rix, instances_ids, promptReads, displayed, selected>>]_vars
    /\ [][PromptRead => (task = <<>> /\ \A i \in Futures : ~Running(i))]_vars

\* C21 witness: a name was resolved, the operator answered y, and a waiter that
\* has polled is running
C21_Witness ==
    /\ prog = "ssm"
    /\ \E k \in 1..Len(args.instances) : IsName(args.instances[k])
    /\ ResolutionComplete
    /\ OperatorConfirmed
    /\ \E i \in Futures : Running(i) /\ polled[i]

\* future i's wait_for_command (ec2.py:218) has neither returned nor raised
WaiterPending(i) == task[i] \in {"queued", "wait"}

\* a step of aggregation: an output is fetched (ec2.py:222), an entry is
\* appended to output_results (235) or an entry of the report is printed (249)
AggregationStep ==
    \/ \E j \in Futures : fetches'[j] > fetches[j]
    \/ Len(output_results') > Len(output_results)
    \/ Len(report') > Len(report)

\* the targets handed to send_command are pairwise different
DistinctTargets ==
    \A i, j \in 1..Len(instances_ids) :
        instances_ids[i] = instances_ids[j] => i = j

\* C22: on distinct targets, an output is fetched and a report entry is
\* produced only in a state where the waiter of every submitted target has
\* reached a terminal state
C22_AggregationAfterWaiting ==
    [][(DistinctTargets /\ AggregationStep) =>
            \A i \in Futures : ~WaiterPending(i)]_vars

\* future i's waiter gets an answer to a poll (ec2.py:263-267): it leaves the
\* wait or counts one more attempt
PollStep(i) ==
    /\ task[i] = "wait"
    /\ task'[i] # "wait" \/ attempts'[i] # attempts[i]

\* main is past the pool block (ec2.py:238-241) and no waiter is left waiting
WaitingOver ==
    /\ pc \in {"report", "exit"}
    /\ Len(task) = Len(instances_ids)
    /\ \A i \in Futures : ~WaiterPending(i)

\* C23: a waiter that is still waiting has polled fewer than 10 times; each poll
\* either ends the wait or counts one attempt, the 10th poll always ends it,
\* and the wait ends as timed out only on the 10th poll; and once the operator
\* has confirmed, send_command comes to leave the pool block with no waiter
\* left waiting, whatever the provider answers
C23_WaitersBoundedAndFinish ==
    /\ [](\A i \in Futures : attempts[i] < MaxAttempts)
    /\ [][\A i \in Futures : PollStep(i) =>
            /\ task'[i] = "wait" => attempts'[i] = attempts[i] + 1
            /\ attempts[i] = MaxAttempts - 1 => task'[i] # "wait"
            /\ task'[i] = "timed_out" => attempts[i] = MaxAttempts - 1]_vars
    /\ OperatorConfirmed ~> WaitingOver

\* C23 witness: the waiting is over, one waiter having timed out on a job that
\* never ended while the other target's output was stored
C23_Witness ==
    /\ WaitingOver
    /\ OperatorConfirmed
    /\ \E i \in Futures : task[i] = "timed_out"
    /\ \E i \in Futures : task[i] = "done"

\* the futures inside the with lock block (ec2.py:234-235)
InAppend == {i \in Futures : task[i] = "append"}
\* the futures of a target whose process_one has returned
CompletedFor(id) == {i \in Futures : task[i] = "done" /\ instances_ids[i] = id}
\* the entries of output_results for a target
StoredFor(id) == {k \in 1..Len(output_results) : output_results[k][1] = id}

\* future i's process_one updates a bar (ec2.py:231)
BarStep(i) == task[i] = "fetch" /\ task'[i] = "lock"

\* C24: at most one waiter is inside the append section, and it is the holder
\* of the lock; output_results only grows, by the entry of the waiter leaving
\* the section, so that each target has as many entries as waiters that
\* completed for it, each with that waiter's output; and a bar changes only by
\* one update from a waiter of the bar's own target, no other bar with it
C24_AppendsMutuallyExclusive ==
    /\ [](Cardinality(InAppend) <= 1)
    /\ [](\A i \in Futures : task[i] = "append" <=> lock = i)
    /\ [](\A id \in Range(instances_ids) :
            /\ Cardinality(StoredFor(id)) = Cardinality(CompletedFor(id))
            /\ \A i \in CompletedFor(id) :
                  \E k \in StoredFor(id) : output_results[k][2] = output[i])
    /\ [][\/ output_results' = output_results
          \/ \E i \in Futures :
                /\ task[i] = "append" /\ task'[i] = "done"
                /\ output_results' =
                       Append(output_results, <<instances_ids[i], output[i]>>)]_vars
    /\ [][\A id \in DOMAIN progress_bars :
            progress_bars'[id] # progress_bars[id] =>
                /\ \E i \in Futures : BarStep(i) /\ instances_ids[i] = id
                /\ progress_bars'[id] = progress_bars[id] + 1
                /\ \A other \in DOMAIN progress_bars \ {id} :
                      progress_bars'[other] = progress_bars[other]]_vars

\* C24 witness: a waiter is inside the append section and another, its bar
\* updated, is kept waiting for the lock
C24_Witness ==
    /\ output_results = <<>>
    /\ \E i, j \in Futures :
          /\ task[i] = "append" /\ lock = i
          /\ task[j] = "lock"
          /\ progress_bars[instances_ids[j]] > 0

====
